---- MODULE Spec2Model ----
(***************************************************************************)
(* Model of the job_scrape_engine pipeline: JobScrapingOrchestrator        *)
(* .run_pipeline driving ScraperAgent, NormalizerAgent, StorageAgent and    *)
(* ResponderAgent over a store that outlives the runs.                      *)
(*                                                                         *)
(* Job objects live in a heap (a sequence of records); the lists the       *)
(* stages exchange are sequences of heap indices, so that the in-place     *)
(* mutation of the Python objects and the aliasing of the lists are kept.   *)
(* Text fields are sequences of tokens; "sp" is one whitespace character   *)
(* and "\\d" is a backslash followed by a letter.                          *)
(***************************************************************************)
EXTENDS Naturals, Sequences, FiniteSets, TLC

VARIABLES pc, urls, clock, task, permits, heap, jobs, normalized_jobs,
          stored_jobs, responses, results, outcome, rows, events, storeCall,
          normCall, call

vars == <<pc, urls, clock, task, permits, heap, jobs, normalized_jobs,
          stored_jobs, responses, results, outcome, rows, events, storeCall,
          normCall, call>>

(* ------------------------------ bounds --------------------------------- *)

\* number of run_pipeline calls in one behaviour
MaxRuns == 2

\* max_concurrent_requests as configured for the modelled runs
max_concurrent_requests == 1

\* the locations a caller may pass
Locations == {"u1", "u2"}

\* longest location list handed to run_pipeline: as many entries as there
\* are locations, so a list can name every location, in either order, or
\* one location twice
MaxUrls == Cardinality(Locations)

\* Optional values: None is the empty tuple, a present value a 1-tuple or
\* a longer tuple
None == <<>>

(* --------------------------- sample content ---------------------------- *)

\* elements a page can hold: one without a title element, one with
\* untidy whitespace, one whose title holds a backslash escape
NoTitle == [has_title |-> FALSE, title |-> <<>>, company |-> <<>>,
            description |-> <<>>]

ElemA == [has_title |-> TRUE, title |-> <<"sp", "Dev">>, company |-> <<>>,
          description |-> <<"python", "sp", "sp", "job">>]

ElemB == [has_title |-> TRUE, title |-> <<"C:", "\\d">>,
          company |-> <<<<"Acme">>>>, description |-> <<"java">>]

Pages == {<<NoTitle>>, <<ElemA>>, <<ElemB>>}

\* what one retrieval can end in: a response with status 200 and a page,
\* a response with another status, or an exception of the transport (a
\* timeout included)
FetchOutcomes ==
    {[raises |-> FALSE, status |-> 200, page |-> p] : p \in Pages}
    \cup {[raises |-> FALSE, status |-> 500, page |-> <<ElemA>>],
          [raises |-> TRUE, status |-> 0, page |-> <<>>]}

(* ------------------------------ models --------------------------------- *)

JobStatus == {"new", "normalized", "stored", "responded", "rejected", "error"}

\* hashlib.md5 of "<external_id>_<scraped_date>", kept as the pair it digests
_generate_job_id(job) == <<job.external_id, job.scraped_date>>

\* get_text(strip=True) of an element that holds one string
RECURSIVE Strip(_)
Strip(text) ==
    IF text # <<>> /\ text[1] = "sp" THEN Strip(Tail(text))
    ELSE IF text # <<>> /\ text[Len(text)] = "sp"
    THEN Strip(SubSeq(text, 1, Len(text) - 1))
    ELSE text

\* ScraperAgent._extract_job_from_element: None for an element without title
_extract_job_from_element(element, source_url, idx, now) ==
    IF ~element.has_title THEN None
    ELSE <<[id |-> None,
            external_id |-> <<source_url, idx>>,
            title |-> Strip(element.title),
            company |-> IF element.company = None THEN <<"Unknown">>
                        ELSE Strip(element.company[1]),
            location |-> None,
            description |-> Strip(element.description),
            salary_min |-> None, salary_max |-> None,
            salary_currency |-> None,
            job_type |-> None, remote_type |-> None,
            required_skills |-> <<>>,
            scraped_date |-> now,
            status |-> "new"]>>

\* ScraperAgent._parse_html: enumerate the elements, keep the jobs extracted
RECURSIVE ParseFrom(_, _, _, _)
ParseFrom(page, source_url, idx, now) ==
    IF idx >= Len(page) THEN <<>>
    ELSE _extract_job_from_element(page[idx + 1], source_url, idx, now)
         \o ParseFrom(page, source_url, idx + 1, now)

_parse_html(page, source_url, now) == ParseFrom(page, source_url, 0, now)

\* a task that parses whatever body the response has, whatever its status
_scrape_url_ignores_status(o, url, now) ==
    IF o.raises THEN <<>> ELSE _parse_html(o.page, url, now)

\* ScraperAgent._scrape_url, what the task returns for the retrieval o
_scrape_url(o, url, now) ==
    IF o.raises \/ o.status # 200 THEN <<>>
    ELSE _parse_html(o.page, url, now)

(* ----------------------------- normalizer ------------------------------ *)

\* re.sub(r'\s+', ' ', text): every run of whitespace becomes one space
RECURSIVE Squeeze(_)
Squeeze(text) ==
    IF Len(text) <= 1 THEN text
    ELSE IF text[1] = "sp" /\ text[2] = "sp" THEN Squeeze(Tail(text))
    ELSE <<text[1]>> \o Squeeze(Tail(text))

\* str.strip()
RECURSIVE LStrip(_)
LStrip(text) ==
    IF text # <<>> /\ text[1] = "sp" THEN LStrip(Tail(text)) ELSE text

RECURSIVE RStrip(_)
RStrip(text) ==
    IF text # <<>> /\ text[Len(text)] = "sp"
    THEN RStrip(SubSeq(text, 1, Len(text) - 1)) ELSE text

\* NormalizerAgent._normalize_text
_normalize_text(text) ==
    IF text = <<>> THEN <<>> ELSE RStrip(LStrip(Squeeze(text)))

\* str.lower(), on the tokens that hold an upper-case letter
Lower(t) ==
    CASE t = "Python"    -> "python"
      [] t = "Java"      -> "java"
      [] t = "Remote"    -> "remote"
      [] t = "Hybrid"    -> "hybrid"
      [] t = "Contract"  -> "contract"
      [] t = "Berlin"    -> "berlin"
      [] t = "Location:" -> "location:"
      [] t = "K"         -> "k"
      [] OTHER           -> t

LowerText(text) == [k \in 1..Len(text) |-> Lower(text[k])]

\* pairs <<p, t>> of tokens where p is a proper substring of t
ProperSubstrings ==
    {<<"remote", "remotely">>, <<"intern", "internship">>,
     <<"intern", "international">>, <<"temp", "temporary">>,
     <<"temp", "temps">>, <<"contract", "contractor">>,
     <<"stage", "backstage">>, <<"berlin", "berlin-mitte">>,
     <<"location", "location:">>, <<"lieu", "lieu:">>}

\* `phrase in text` for str: a one-token phrase also sits inside a longer
\* token, a longer phrase is matched token by token
Contains(text, phrase) ==
    \E s \in 1..Len(text) :
        /\ s + Len(phrase) - 1 <= Len(text)
        /\ \A j \in 1..Len(phrase) :
             \/ text[s + j - 1] = phrase[j]
             \/ Len(phrase) = 1 /\ <<phrase[j], text[s + j - 1]>> \in ProperSubstrings

\* re.search(r'\b...\b', text): the phrase as whole words
ContainsWords(text, phrase) ==
    \E s \in 1..Len(text) :
        /\ s + Len(phrase) - 1 <= Len(text)
        /\ \A j \in 1..Len(phrase) : text[s + j - 1] = phrase[j]

\* NormalizerAgent._load_skill_patterns, in the order of the dictionary
skill_patterns ==
    <<[skill |-> "Python",
       patterns |-> {<<"python">>, <<"django">>, <<"flask">>, <<"fastapi">>}],
      [skill |-> "JavaScript",
       patterns |-> {<<"javascript">>, <<"js">>, <<"nodejs">>, <<"node.js">>,
                     <<"react">>, <<"vue">>, <<"angular">>}],
      [skill |-> "Java", patterns |-> {<<"java">>, <<"spring">>}],
      [skill |-> "SQL",
       patterns |-> {<<"sql">>, <<"mysql">>, <<"postgresql">>, <<"postgres">>}],
      [skill |-> "Docker",
       patterns |-> {<<"docker">>, <<"kubernetes">>, <<"k8s">>}],
      [skill |-> "AWS",
       patterns |-> {<<"aws">>, <<"amazon", "sp", "web", "sp", "services">>,
                     <<"ec2">>, <<"s3">>}],
      [skill |-> "Git", patterns |-> {<<"git">>, <<"github">>, <<"gitlab">>}],
      [skill |-> "CI/CD",
       patterns |-> {<<"ci/cd">>, <<"jenkins">>,
                     <<"github", "sp", "actions">>, <<"gitlab", "sp", "ci">>}]>>

\* NormalizerAgent._extract_skills: the skills of the table, in its order,
\* one of whose patterns is found in the lower-cased description
RECURSIVE ExtractSkillsFrom(_, _)
ExtractSkillsFrom(description_lower, i) ==
    IF i > Len(skill_patterns) THEN <<>>
    ELSE (IF \E p \in skill_patterns[i].patterns :
                 ContainsWords(description_lower, p)
          THEN <<skill_patterns[i].skill>> ELSE <<>>)
         \o ExtractSkillsFrom(description_lower, i + 1)

_extract_skills(description) == ExtractSkillsFrom(LowerText(description), 1)

\* set(list)
ToSet(list) == {list[k] : k \in 1..Len(list)}

\* list(set): the elements once each, in an order the language leaves open
RECURSIVE Orderings(_)
Orderings(S) ==
    IF S = {} THEN {<<>>}
    ELSE UNION {{<<x>> \o q : q \in Orderings(S \ {x})} : x \in S}

\* the orders list(set(job.required_skills + skills)) can come out in, for
\* the job as it enters _normalize_job
SkillOrders(job) ==
    LET description == _normalize_text(job.description)
    IN  IF description = <<>> THEN {job.required_skills}
        ELSE Orderings(ToSet(job.required_skills
                             \o _extract_skills(description)))

\* NormalizerAgent._load_job_type_mappings, in the order of the dictionary
job_type_mappings ==
    <<[normalized |-> "full-time",
       patterns |-> <<<<"full-time">>, <<"full", "sp", "time">>,
                      <<"temps", "sp", "plein">>, <<"cdi">>>>],
      [normalized |-> "part-time",
       patterns |-> <<<<"part-time">>, <<"part", "sp", "time">>,
                      <<"temps", "sp", "partiel">>>>],
      [normalized |-> "contract",
       patterns |-> <<<<"contract">>, <<"contractor">>, <<"freelance">>,
                      <<"contrat">>>>],
      [normalized |-> "internship",
       patterns |-> <<<<"internship">>, <<"intern">>, <<"stage">>>>],
      [normalized |-> "temporary",
       patterns |-> <<<<"temporary">>, <<"temp">>, <<"temporaire">>,
                      <<"cdd">>>>]>>

\* NormalizerAgent._normalize_job_type: the first pattern, in the order of
\* the table, that the job type or the description contains
RECURSIVE JobTypeFrom(_, _, _, _)
JobTypeFrom(job_type_lower, description_lower, i, j) ==
    IF i > Len(job_type_mappings) THEN <<"full-time">>
    ELSE IF j > Len(job_type_mappings[i].patterns)
    THEN JobTypeFrom(job_type_lower, description_lower, i + 1, 1)
    ELSE LET pattern == job_type_mappings[i].patterns[j]
         IN  IF Contains(job_type_lower, pattern)
                \/ Contains(description_lower, pattern)
             THEN <<job_type_mappings[i].normalized>>
             ELSE JobTypeFrom(job_type_lower, description_lower, i, j + 1)

_normalize_job_type(job_type, description) ==
    JobTypeFrom(LowerText(job_type), LowerText(description), 1, 1)

\* the characters [\d,] of the salary patterns
Digits == {"0", "1", "2", "3", "4", "5", "6", "7", "8", "9"}

NumChars == Digits \cup {","}

DigitValue(d) ==
    CASE d = "0" -> 0 [] d = "1" -> 1 [] d = "2" -> 2 [] d = "3" -> 3
      [] d = "4" -> 4 [] d = "5" -> 5 [] d = "6" -> 6 [] d = "7" -> 7
      [] d = "8" -> 8 [] d = "9" -> 9

\* a greedy X*: the position after the longest run of tokens of a class
RECURSIVE RunEnd(_, _, _)
RunEnd(text, p, class) ==
    IF p <= Len(text) /\ text[p] \in class
    THEN RunEnd(text, p + 1, class) ELSE p

\* a greedy X?: the position after the token when it is of the class
Opt(text, p, class) ==
    IF p <= Len(text) /\ text[p] \in class THEN p + 1 ELSE p

NoMatch == [matched |-> FALSE, start |-> 0, end |-> 0, g1 |-> <<>>, g2 |-> <<>>]

\* one item of a pattern: a class of tokens, how often it may repeat, and
\* the group that captures it (0 for none)
Item(kind, class, group) == [kind |-> kind, class |-> class, group |-> group]

\* r'\$?([\d,]+)k?\s*-\s*\$?([\d,]+)k?' with re.IGNORECASE
RangePattern ==
    <<Item("?", {"$"}, 0), Item("+", NumChars, 1), Item("?", {"k", "K"}, 0),
      Item("*", {"sp"}, 0), Item("1", {"-"}, 0), Item("*", {"sp"}, 0),
      Item("?", {"$"}, 0), Item("+", NumChars, 2), Item("?", {"k", "K"}, 0)>>

\* r'([\d,]+)\s*€\s*-\s*([\d,]+)\s*€'
EuroRangePattern ==
    <<Item("+", NumChars, 1), Item("*", {"sp"}, 0), Item("1", {"€"}, 0),
      Item("*", {"sp"}, 0), Item("1", {"-"}, 0), Item("*", {"sp"}, 0),
      Item("+", NumChars, 2), Item("*", {"sp"}, 0), Item("1", {"€"}, 0)>>

\* the two patterns, in the order of the list
SalaryPatterns == <<RangePattern, EuroRangePattern>>

\* the position after what an item takes from position p, greedily
ItemEnd(text, p, item) ==
    IF item.kind \in {"*", "+"} THEN RunEnd(text, p, item.class)
    ELSE Opt(text, p, item.class)

\* whether an item may take the tokens from p up to q
ItemAccepts(item, p, q) ==
    CASE item.kind = "+" -> q > p
      [] item.kind = "1" -> q = p + 1
      [] OTHER           -> TRUE

\* the items from the i-th on matched from position p; the item classes
\* that follow one another are disjoint, so the greedy choice is the only one
RECURSIVE MatchItems(_, _, _, _, _)
Consume(text, items, i, p, q, m) ==
    IF ~ItemAccepts(items[i], p, q) THEN NoMatch
    ELSE MatchItems(text, items, i + 1, q,
                    CASE items[i].group = 1 ->
                           [m EXCEPT !.g1 = SubSeq(text, p, q - 1)]
                      [] items[i].group = 2 ->
                           [m EXCEPT !.g2 = SubSeq(text, p, q - 1)]
                      [] OTHER -> m)

MatchItems(text, items, i, p, m) ==
    IF i > Len(items) THEN [m EXCEPT !.matched = TRUE, !.end = p - 1]
    ELSE Consume(text, items, i, p, ItemEnd(text, p, items[i]), m)

\* the pattern tried at position s
MatchAt(pattern, text, s) ==
    MatchItems(text, pattern, 1, s, [NoMatch EXCEPT !.start = s])

\* re.search: the match at the leftmost position that has one
RECURSIVE SearchFrom(_, _, _)
SearchFrom(pattern, text, s) ==
    IF s > Len(text) THEN NoMatch
    ELSE IF MatchAt(pattern, text, s).matched THEN MatchAt(pattern, text, s)
    ELSE SearchFrom(pattern, text, s + 1)

re_search(pattern, text) == SearchFrom(pattern, text, 1)

\* str.replace(',', '')
StripCommas(capture) == SelectSeq(capture, LAMBDA t : t # ",")

\* float() of a string of decimal digits
RECURSIVE DecimalValue(_)
DecimalValue(ds) ==
    IF ds = <<>> THEN 0
    ELSE DecimalValue(SubSeq(ds, 1, Len(ds) - 1)) * 10 + DigitValue(ds[Len(ds)])

\* a salary read from a match without looking for the letter k
SalaryOfMatchUnscaled(description, m) ==
    LET d1   == StripCommas(m.g1)
        d2   == StripCommas(m.g2)
        span == SubSeq(description, m.start, m.end)
        euro == \E k \in 1..Len(span) : span[k] = "€"
    IN  IF d1 = <<>> \/ d2 = <<>> THEN None
        ELSE <<[min |-> DecimalValue(d1), max |-> DecimalValue(d2),
                currency |-> IF euro THEN "EUR" ELSE "USD"]>>

\* NormalizerAgent._extract_salary, the body of the loop for one match:
\* None when float() raises ValueError (the capture holds no digit)
SalaryOfMatch(description, m) ==
    LET d1   == StripCommas(m.g1)
        d2   == StripCommas(m.g2)
        span == SubSeq(description, m.start, m.end)
        in_thousands == \E k \in 1..Len(span) : Lower(span[k]) = "k"
        scale == IF in_thousands THEN 1000 ELSE 1
        euro == \E k \in 1..Len(span) : span[k] = "€"
    IN  IF d1 = <<>> \/ d2 = <<>> THEN None
        ELSE <<[min |-> DecimalValue(d1) * scale,
                max |-> DecimalValue(d2) * scale,
                currency |-> IF euro THEN "EUR" ELSE "USD"]>>

\* NormalizerAgent._extract_salary: the first pattern whose match gives
\* numbers
RECURSIVE ExtractSalaryFrom(_, _)
ExtractSalaryFrom(description, i) ==
    IF i > Len(SalaryPatterns) THEN None
    ELSE LET m == re_search(SalaryPatterns[i], description)
             r == IF m.matched THEN SalaryOfMatch(description, m) ELSE None
         IN  IF r # None THEN r ELSE ExtractSalaryFrom(description, i + 1)

_extract_salary(description) == ExtractSalaryFrom(description, 1)

\* NormalizerAgent._normalize_location: the text cleaned and a leading
\* "location" or "lieu", with or without colon, taken off
_normalize_location(location) ==
    LET text == _normalize_text(location)
    IN  IF text # <<>> /\ Lower(text[1]) \in {"location:", "lieu:", "location", "lieu"}
        THEN LStrip(Tail(text)) ELSE text

\* NormalizerAgent._extract_remote_type
RemoteTerms ==
    {<<"remote">>, <<"télétravail">>, <<"work", "sp", "from", "sp", "home">>,
     <<"wfh">>}

HybridTerms == {<<"hybrid">>, <<"hybride">>, <<"part-time", "sp", "remote">>}

\* a classification that looks for the hybrid terms first
_extract_remote_type_hybrid_first(description, title) ==
    LET combined_text == LowerText(title \o <<"sp">> \o description)
    IN  IF \E word \in HybridTerms : Contains(combined_text, word)
        THEN <<"hybrid">>
        ELSE IF \E word \in RemoteTerms : Contains(combined_text, word)
        THEN <<"remote">>
        ELSE <<"on-site">>

_extract_remote_type(description, title) ==
    LET combined_text == LowerText(title \o <<"sp">> \o description)
    IN  IF \E word \in RemoteTerms : Contains(combined_text, word)
        THEN IF \E word \in HybridTerms : Contains(combined_text, word)
             THEN <<"hybrid">> ELSE <<"remote">>
        ELSE <<"on-site">>

\* an Optional[float] Python takes for false: None or 0
FalsyNumber(opt) == opt = None \/ opt[1] = 0

\* an Optional[str] Python takes for false: None or the empty string
FalsyText(opt) == opt = None \/ opt[1] = <<>>

\* whether an exception leaves _normalize_job, and where: after the text
\* fields were rewritten (lines 61-63) and before the status is set
NormalizeFaults == {"none", "after_text"}

\* _normalize_job, lines 61-63: the text fields cleaned
CleanText(job) ==
    [job EXCEPT !.title = _normalize_text(job.title),
                !.company = _normalize_text(job.company),
                !.description = _normalize_text(job.description)]

\* lines 66-68: the skills merged, when there is a description
MergeSkills(job, order) ==
    IF job.description # <<>> THEN [job EXCEPT !.required_skills = order]
    ELSE job

\* line 71
SetJobType(job) ==
    [job EXCEPT !.job_type =
       <<_normalize_job_type(IF job.job_type = None THEN <<>>
                             ELSE job.job_type[1],
                             job.description)>>]

\* lines 76-79: the salary taken over from what the description gave
TakeSalary(job, salary_info) ==
    IF salary_info # None
    THEN [job EXCEPT !.salary_min = <<salary_info[1].min>>,
                     !.salary_max = <<salary_info[1].max>>,
                     !.salary_currency = <<salary_info[1].currency>>]
    ELSE job

\* lines 74-79: only a job that lacks a bound is given a salary
FillSalary(job) ==
    IF FalsyNumber(job.salary_min) \/ FalsyNumber(job.salary_max)
    THEN TakeSalary(job, _extract_salary(job.description))
    ELSE job

\* lines 82-83
SetLocation(job) ==
    IF ~FalsyText(job.location)
    THEN [job EXCEPT !.location = <<_normalize_location(job.location[1])>>]
    ELSE job

\* line 86
SetRemoteType(job) ==
    [job EXCEPT !.remote_type =
       <<_extract_remote_type(job.description, job.title)>>]

\* NormalizerAgent._normalize_job: the job as the call leaves it, and
\* whether the call raised; order is what list(set(...)) comes out as
_normalize_job(job, fault, order) ==
    IF fault = "after_text"
    THEN [job |-> CleanText(job), raised |-> TRUE]
    ELSE [job |-> [SetRemoteType(SetLocation(FillSalary(SetJobType(
                       MergeSkills(CleanText(job), order)))))
                   EXCEPT !.status = "normalized"],
          raised |-> FALSE]

\* the except branch without its append: the failed record is lost
OnNormalizeErrorDrop(h, oid, job, out) ==
    [heap |-> [h EXCEPT ![oid] = [job EXCEPT !.status = "error"]],
     out  |-> out]

\* NormalizerAgent.process, the except branch: the record is marked and kept
OnNormalizeError(h, oid, job, out) ==
    [heap |-> [h EXCEPT ![oid] = [job EXCEPT !.status = "error"]],
     out  |-> Append(out, oid)]

\* NormalizerAgent.process, the loop from position i on; failed collects
\* the positions whose _normalize_job raised
RECURSIVE NormalizeFrom(_, _, _, _, _, _, _)
NormalizeFrom(h, list, faults, orders, i, out, failed) ==
    IF i > Len(list) THEN [heap |-> h, out |-> out, failed |-> failed]
    ELSE LET oid == list[i]
             r   == _normalize_job(h[oid], faults[i], orders[i])
             nxt == IF r.raised
                    THEN OnNormalizeError(h, oid, r.job, out)
                    ELSE [heap |-> [h EXCEPT ![oid] = r.job],
                          out  |-> Append(out, oid)]
         IN  NormalizeFrom(nxt.heap, list, faults, orders, i + 1, nxt.out,
                           IF r.raised THEN failed \cup {i} ELSE failed)

\* the orders list(set(...)) can come out in for the records of a list
RECURSIVE OrderChoices(_, _, _)
OrderChoices(h, list, i) ==
    IF i > Len(list) THEN {<<>>}
    ELSE {<<o>> \o rest : o \in SkillOrders(h[list[i]]),
                          rest \in OrderChoices(h, list, i + 1)}

\* NormalizerAgent.process
NormalizerAgent_process(h, list, faults, orders) ==
    NormalizeFrom(h, list, faults, orders, 1, <<>>, {})

(* ------------------------------ storage -------------------------------- *)

\* a write that puts the status stored into the row
RowMarkedStored(job) ==
    [id |-> job.id, external_id |-> job.external_id, title |-> job.title,
     description |-> job.description, scraped_date |-> job.scraped_date,
     status |-> "stored"]

\* the columns of the jobs table that the model keeps
Row(job) ==
    [id |-> job.id, external_id |-> job.external_id, title |-> job.title,
     description |-> job.description, scraped_date |-> job.scraped_date,
     status |-> job.status]

\* StorageAgent._insert_job: INSERT; id is the PRIMARY KEY and external_id
\* is UNIQUE, a clash raises sqlite3.IntegrityError and writes nothing
_insert_job(tx, job) ==
    IF \E r \in tx : r.id = job.id \/ r.external_id = job.external_id
    THEN [rows |-> tx, raised |-> TRUE]
    ELSE [rows |-> tx \cup {Row(job)}, raised |-> FALSE]

\* an update that adds a row for the record instead of rewriting the one
\* that holds its external_id
_update_job_adds_row(tx, job) ==
    [rows |-> tx \cup {[id |-> job.id, external_id |-> job.external_id,
                        title |-> job.title, description |-> job.description,
                        scraped_date |-> job.scraped_date,
                        status |-> job.status]},
     raised |-> FALSE]

\* an update that leaves the row as it finds it
_update_job_keeps_row(tx, job) == [rows |-> tx, raised |-> FALSE]

\* StorageAgent._update_job: UPDATE ... WHERE external_id = ?, the id column
\* is not in the SET list
_update_job(tx, job) ==
    [rows |-> {IF r.external_id = job.external_id
               THEN [Row(job) EXCEPT !.id = r.id] ELSE r : r \in tx},
     raised |-> FALSE]

\* a _store_job that hands the record back as new after the write
_store_job_marks_new(tx, job, db_fault) ==
    LET j1 == IF job.id = None
              THEN [job EXCEPT !.id = _generate_job_id(job)] ELSE job
        existing == \E r \in tx : r.external_id = j1.external_id
        w  == IF existing THEN _update_job(tx, j1) ELSE _insert_job(tx, j1)
    IN  IF db_fault \/ w.raised
        THEN [rows |-> tx, job |-> j1, raised |-> TRUE]
        ELSE [rows |-> w.rows, job |-> [j1 EXCEPT !.status = "new"],
              raised |-> FALSE]

\* a _store_job that leaves the status of a record in error as it is
_store_job_keeps_error(tx, job, db_fault) ==
    LET j1 == IF job.id = None
              THEN [job EXCEPT !.id = _generate_job_id(job)] ELSE job
        existing == \E r \in tx : r.external_id = j1.external_id
        w  == IF existing THEN _update_job(tx, j1) ELSE _insert_job(tx, j1)
    IN  IF db_fault \/ w.raised
        THEN [rows |-> tx, job |-> j1, raised |-> TRUE]
        ELSE [rows |-> w.rows,
              job |-> IF j1.status = "error" THEN j1
                      ELSE [j1 EXCEPT !.status = "stored"],
              raised |-> FALSE]

\* StorageAgent._store_job under a cursor whose statements fail when
\* db_fault holds (sqlite3.OperationalError); the id is set before the
\* first statement runs
_store_job(tx, job, db_fault) ==
    LET j1 == IF job.id = None
              THEN [job EXCEPT !.id = _generate_job_id(job)] ELSE job
        existing == \E r \in tx : r.external_id = j1.external_id
        w  == IF existing THEN _update_job(tx, j1) ELSE _insert_job(tx, j1)
    IN  IF db_fault \/ w.raised
        THEN [rows |-> tx, job |-> j1, raised |-> TRUE]
        ELSE [rows |-> w.rows, job |-> [j1 EXCEPT !.status = "stored"],
              raised |-> FALSE]

\* the inner except branch without its append
OnStoreErrorDrop(h, oid, job, out) ==
    [heap |-> [h EXCEPT ![oid] = [job EXCEPT !.status = "error"]],
     out  |-> out]

\* StorageAgent.process, the inner except branch
OnStoreError(h, oid, job, out) ==
    [heap |-> [h EXCEPT ![oid] = [job EXCEPT !.status = "error"]],
     out  |-> Append(out, oid)]

\* StorageAgent.process, the loop from position i on; failed collects the
\* positions whose _store_job raised
RECURSIVE StoreFrom(_, _, _, _, _, _, _)
StoreFrom(tx, h, list, faults, i, out, failed) ==
    IF i > Len(list)
    THEN [rows |-> tx, heap |-> h, out |-> out, failed |-> failed]
    ELSE LET oid == list[i]
             r   == _store_job(tx, h[oid], i \in faults)
             nxt == IF r.raised
                    THEN OnStoreError(h, oid, r.job, out)
                    ELSE [heap |-> [h EXCEPT ![oid] = r.job],
                          out  |-> Append(out, oid)]
         IN  StoreFrom(r.rows, nxt.heap, list, faults, i + 1, nxt.out,
                       IF r.raised THEN failed \cup {i} ELSE failed)

\* a failed commit that leaves the written rows in place
AfterCommitNoRollback(before, tx, commit_fails) == tx

\* StorageAgent.process, commit or rollback: the rows of the store after
\* the call
AfterCommit(before, tx, commit_fails) ==
    IF commit_fails THEN before ELSE tx

\* a persist stage that returns only the records it stored
StorageAgent_process_stored_only(db, h, list, faults, commit_fails) ==
    LET r == StoreFrom(db, h, list, faults, 1, <<>>, {})
    IN  [rows   |-> AfterCommit(db, r.rows, commit_fails),
         heap   |-> r.heap,
         out    |-> SelectSeq(r.out, LAMBDA oid : r.heap[oid].status # "error"),
         failed |-> r.failed,
         raised |-> commit_fails]

\* StorageAgent.process
StorageAgent_process(db, h, list, faults, commit_fails) ==
    LET r == StoreFrom(db, h, list, faults, 1, <<>>, {})
    IN  [rows   |-> AfterCommit(db, r.rows, commit_fails),
         heap   |-> r.heap,
         out    |-> r.out,
         failed |-> r.failed,
         raised |-> commit_fails]

\* StorageAgent.get_jobs: the rows the query selects, all of them when no
\* status is given; the tables of the model are shorter than one page of
\* the result
get_jobs(db, status) ==
    IF status = None THEN db ELSE {r \in db : r.status = status[1]}

(* ----------------------------- responder ------------------------------- *)

\* responder.response_criteria of the default configuration: no key; a key
\* that is configured holds its value as a 1-tuple
response_criteria ==
    [required_skills |-> None, job_types |-> None, remote_types |-> None,
     min_salary |-> None, locations |-> None]

\* responder.auto_respond of the default configuration
auto_respond == FALSE

\* ResponderAgent._load_templates, the template added when none is
\* configured; a run of words without placeholder is one token
DefaultTemplate ==
    [name    |-> "Default Application",
     subject |-> <<"Application for", "sp", "{job_title}", "sp", "at", "sp",
                   "{company}">>,
     body    |-> <<"Dear ... in the", "sp", "{job_title}", "sp",
                   "position at", "sp", "{company}", ". ... because of",
                   "sp", "{company}", "'s reputation ... [Your Name]">>]

\* the configuration a ResponderAgent is built with when the caller gives
\* none
DefaultResponderConfig ==
    [auto_respond |-> auto_respond, response_criteria |-> response_criteria,
     custom_variables |-> <<>>, templates |-> <<>>]

\* ResponderAgent._load_templates
_load_templates(cfg) ==
    IF cfg.templates = <<>> THEN <<DefaultTemplate>> ELSE cfg.templates

\* ResponderAgent._select_template: the first template; a 1-tuple, or None
_select_template(cfg) ==
    LET templates == _load_templates(cfg)
    IN  IF templates = <<>> THEN None ELSE <<templates[1]>>

CriteriaKeys ==
    {"required_skills", "job_types", "remote_types", "min_salary", "locations"}

\* a filter that lets a record pass when it meets the skills predicate
\* alone
_meets_criteria_skills_only(criteria, job) ==
    criteria.required_skills # None =>
        criteria.required_skills[1] \cap ToSet(job.required_skills) # {}

\* ResponderAgent._meets_criteria: each predicate is evaluated only when its
\* key is in the criteria, the salary and the location predicate only when
\* the job's field is truthy as well
_meets_criteria(criteria, job) ==
    /\ criteria.required_skills # None =>
          criteria.required_skills[1] \cap ToSet(job.required_skills) # {}
    /\ criteria.job_types # None =>
          /\ job.job_type # None
          /\ job.job_type[1] \in criteria.job_types[1]
    /\ criteria.remote_types # None =>
          /\ job.remote_type # None
          /\ job.remote_type[1] \in criteria.remote_types[1]
    /\ (criteria.min_salary # None /\ ~FalsyNumber(job.salary_min)) =>
          job.salary_min[1] >= criteria.min_salary[1]
    /\ (criteria.locations # None /\ ~FalsyText(job.location)) =>
          \E loc \in criteria.locations[1] :
              Contains(LowerText(job.location[1]), LowerText(loc))

\* re.sub parses its replacement string: a backslash followed by an ASCII
\* letter that is no known escape raises re.error
BadEscape(value) == \E k \in 1..Len(value) : value[k] = "\\d"

\* the text r'\{' + re.escape(key) + r'\}' matches
Placeholder(key) ==
    CASE key = "job_title" -> "{job_title}"
      [] key = "company"   -> "{company}"
      [] key = "location"  -> "{location}"
      [] key = "job_type"  -> "{job_type}"
      [] key = "date"      -> "{date}"
      [] key = "name"      -> "{name}"
      [] OTHER             -> "{?}"

\* strftime("%Y-%m-%d") of the time of the call
DateString(now) ==
    CASE now = 0 -> "day0" [] now = 1 -> "day1" [] now = 2 -> "day2"
      [] OTHER -> "day3"

\* dict.update: a key that is there keeps its place and takes the new
\* value, a new key goes to the end
RECURSIVE DictUpdate(_, _)
DictUpdate(d, extra) ==
    IF extra = <<>> THEN d
    ELSE LET e == extra[1]
             there == \E k \in 1..Len(d) : d[k].key = e.key
             d1 == IF there
                   THEN [k \in 1..Len(d) |->
                           IF d[k].key = e.key THEN e ELSE d[k]]
                   ELSE Append(d, e)
         IN  DictUpdate(d1, Tail(extra))

\* re.sub(pattern, value, text) for a value that is a valid replacement:
\* every occurrence of the placeholder becomes the value
RECURSIVE ReplaceFrom(_, _, _, _)
ReplaceFrom(text, i, placeholder, value) ==
    IF i > Len(text) THEN <<>>
    ELSE (IF text[i] = placeholder THEN value ELSE <<text[i]>>)
         \o ReplaceFrom(text, i + 1, placeholder, value)

\* a text without the placeholder comes back as it is
ReplaceAll(text, placeholder, value) ==
    IF \A k \in 1..Len(text) : text[k] # placeholder THEN text
    ELSE ReplaceFrom(text, 1, placeholder, value)

\* ResponderAgent._substitute_variables: one re.sub per variable, in the
\* order of the dictionary, each on the result of the one before; re.sub
\* raises on a value that is no valid replacement, match or no match
RECURSIVE SubstituteFrom(_, _, _)
SubstituteFrom(text, variables, i) ==
    IF i > Len(variables) THEN [raised |-> FALSE, text |-> text]
    ELSE IF BadEscape(variables[i].value)
    THEN [raised |-> TRUE, text |-> text]
    ELSE SubstituteFrom(ReplaceAll(text, Placeholder(variables[i].key),
                                   variables[i].value),
                        variables, i + 1)

_substitute_variables(text, variables) == SubstituteFrom(text, variables, 1)

\* ResponderAgent._generate_response, lines 182-191: the variables
Variables(cfg, job, now) ==
    DictUpdate(
        <<[key |-> "job_title", value |-> job.title],
          [key |-> "company", value |-> job.company],
          [key |-> "location",
           value |-> IF FalsyText(job.location) THEN <<"N/A">>
                     ELSE job.location[1]],
          [key |-> "job_type",
           value |-> IF FalsyText(job.job_type) THEN <<"N/A">>
                     ELSE job.job_type[1]],
          [key |-> "date", value |-> <<DateString(now)>>]>>,
        cfg.custom_variables)

\* ResponderAgent._generate_response: the JobResponse, or the raise of a
\* substitution
_generate_response(cfg, job, template, now) ==
    LET variables == Variables(cfg, job, now)
        subject == _substitute_variables(template.subject, variables)
        body    == _substitute_variables(template.body, variables)
    IN  IF subject.raised \/ body.raised
        THEN [raised |-> TRUE, response |-> None]
        ELSE [raised |-> FALSE,
              response |-> <<[job_id |-> job.id,
                              subject |-> subject.text, body |-> body.text,
                              status |-> "pending", sent_date |-> None]>>]

\* a responder that flags the result as sent and leaves the response as it
\* was generated
AutoSendFlagOnly(cfg, response, now) ==
    [response |-> response, auto_sent |-> cfg.auto_respond]

\* ResponderAgent._process_job, lines 96-103: the response and the
\* auto_sent flag of the result, with and without auto_respond
AutoSend(cfg, response, now) ==
    IF cfg.auto_respond
    THEN [response |-> <<[response[1] EXCEPT !.status = "sent",
                                             !.sent_date = <<now>>]>>,
          auto_sent |-> TRUE]
    ELSE [response |-> response, auto_sent |-> FALSE]

\* ResponderAgent._process_job: the job as the call leaves it, the result
\* dictionary, and whether the call raised
_process_job(cfg, job, oid, now) ==
    IF ~_meets_criteria(cfg.response_criteria, job)
    THEN [job |-> job, raised |-> FALSE,
          result |-> [job |-> oid, response |-> None,
                      should_respond |-> FALSE,
                      reason |-> "Does not meet criteria"]]
    ELSE IF _select_template(cfg) = None
    THEN [job |-> job, raised |-> FALSE,
          result |-> [job |-> oid, response |-> None,
                      should_respond |-> FALSE,
                      reason |-> "No template available"]]
    ELSE LET g == _generate_response(cfg, job, _select_template(cfg)[1], now)
         IN  IF g.raised
             THEN [job |-> job, raised |-> TRUE, result |-> None]
             ELSE [job |-> [job EXCEPT !.status = "responded"],
                   raised |-> FALSE,
                   result |-> [job |-> oid,
                               response |-> AutoSend(cfg, g.response, now).response,
                               should_respond |-> TRUE,
                               auto_sent |-> AutoSend(cfg, g.response, now).auto_sent]]

\* the except branch without its append
OnRespondErrorDrop(oid, out) == out

\* ResponderAgent.process, the except branch: the failure becomes a result
OnRespondError(oid, out) ==
    Append(out, [job |-> oid, response |-> None, error |-> "bad escape"])

\* ResponderAgent.process, the loop from position i on
RECURSIVE RespondFrom(_, _, _, _, _, _)
RespondFrom(cfg, h, list, now, i, out) ==
    IF i > Len(list) THEN [heap |-> h, out |-> out]
    ELSE LET oid == list[i]
             r   == _process_job(cfg, h[oid], oid, now)
         IN  IF r.raised
             THEN RespondFrom(cfg, h, list, now, i + 1,
                              OnRespondError(oid, out))
             ELSE RespondFrom(cfg, [h EXCEPT ![oid] = r.job], list, now,
                              i + 1, Append(out, r.result))

ResponderAgent_process(cfg, h, list, now) ==
    RespondFrom(cfg, h, list, now, 1, <<>>)

(* ---------------------------- orchestrator ----------------------------- *)

\* the stage calls with persist and normalize exchanged
StageAfterSwapped(stage) ==
    CASE stage = "fetch"     -> "persist"
      [] stage = "persist"   -> "normalize"
      [] stage = "normalize" -> "respond"
      [] stage = "respond"   -> "returned"

\* run_pipeline, the order of its stage calls: the position that follows
\* the return of a stage
StageAfter(stage) ==
    CASE stage = "fetch"     -> "normalize"
      [] stage = "normalize" -> "persist"
      [] stage = "persist"   -> "respond"
      [] stage = "respond"   -> "returned"

\* run_pipeline, the results dictionary as first built
NewResults(us) ==
    [urls_processed |-> Len(us), jobs_scraped |-> 0, jobs_normalized |-> 0,
     jobs_stored |-> 0, responses_generated |-> 0, errors |-> <<>>]

\* run_pipeline, results["execution_time_seconds"] = round(...)
WithExecutionTime(res) == res @@ [execution_time_seconds |-> "elapsed"]

\* an except branch that logs and goes on with the next stage
OnPipelineErrorSwallow(res, message) ==
    [results |-> [res EXCEPT !.errors = Append(@, message)],
     outcome |-> [kind |-> "none"],
     pc      |-> "respond"]

\* run_pipeline, the except branch: the message is appended to the local
\* results and the exception goes on to the caller
OnPipelineError(res, message) ==
    [results |-> [res EXCEPT !.errors = Append(@, message)],
     outcome |-> [kind |-> "raised", message |-> message],
     pc      |-> "raised"]

\* the early return left out
NoJobsNever(list) == FALSE

\* run_pipeline, `if not jobs:` after the fetch stage
NoJobs(list) == list = <<>>

\* the lists of locations a caller passes
RECURSIVE SeqsUpTo(_, _)
SeqsUpTo(S, n) ==
    IF n = 0 THEN {<<>>}
    ELSE LET shorter == SeqsUpTo(S, n - 1)
         IN  shorter \cup {Append(q, x) : q \in shorter, x \in S}

UrlLists == SeqsUpTo(Locations, MaxUrls)

\* [r for r in responses if r.get("should_respond")]
ShouldRespond(r) == "should_respond" \in DOMAIN r /\ r.should_respond

\* a count of every result, with a response or without
CountEveryResult(rs) == Len(rs)

RECURSIVE CountShouldRespond(_)
CountShouldRespond(rs) ==
    IF rs = <<>> THEN 0
    ELSE (IF ShouldRespond(rs[1]) THEN 1 ELSE 0) + CountShouldRespond(Tail(rs))

\* a gather that hands the results back with the last task first
RECURSIVE GatherFromReversed(_, _)
GatherFromReversed(t, i) ==
    IF i > Len(t) THEN <<>> ELSE GatherFromReversed(t, i + 1) \o t[i].result

\* asyncio.gather: the results in task order, run_pipeline's jobs.extend
RECURSIVE GatherFrom(_, _)
GatherFrom(t, i) ==
    IF i > Len(t) THEN <<>> ELSE t[i].result \o GatherFrom(t, i + 1)

NoStoreCall ==
    [called |-> FALSE, before |-> {}, input |-> <<>>, out |-> <<>>,
     failed |-> {}, commit_failed |-> FALSE]

NoNormCall == [called |-> FALSE, failed |-> {}]

Event(ev, stage, list) == [ev |-> ev, stage |-> stage, list |-> list]

\* no agent method is being called on its own
NoCall == [fn |-> "none"]

\* an orchestrator that has been built and runs no pipeline
Idle ==
    /\ pc = "idle"
    /\ urls = <<>>
    /\ clock = 0
    /\ task = <<>>
    /\ permits = max_concurrent_requests
    /\ heap = <<>>
    /\ jobs = <<>>
    /\ normalized_jobs = <<>>
    /\ stored_jobs = <<>>
    /\ responses = <<>>
    /\ results = NewResults(<<>>)
    /\ outcome = [kind |-> "none"]
    /\ rows = {}
    /\ events = <<>>
    /\ storeCall = NoStoreCall
    /\ normCall = NoNormCall

Init ==
    /\ Idle
    /\ call = NoCall

\* a caller invokes run_pipeline(us): lines 58-73 up to the tasks being
\* handed to asyncio.gather
StartPipeline(us) ==
    /\ pc = "idle"
    /\ clock < MaxRuns
    /\ pc' = "fetch"
    /\ urls' = us
    /\ clock' = clock + 1
    /\ task' = [i \in 1..Len(us) |->
                  [pc |-> "wait", result |-> <<>>, failed |-> FALSE]]
    /\ permits' = max_concurrent_requests
    /\ heap' = <<>>
    /\ jobs' = <<>>
    /\ normalized_jobs' = <<>>
    /\ stored_jobs' = <<>>
    /\ responses' = <<>>
    /\ results' = NewResults(us)
    /\ outcome' = [kind |-> "none"]
    /\ events' = <<Event("call", "fetch", <<>>)>>
    /\ storeCall' = NoStoreCall
    /\ normCall' = NoNormCall
    /\ UNCHANGED rows
    /\ UNCHANGED call

\* a task that starts its retrieval without waiting for the semaphore
AcquireUnbounded(i) ==
    /\ pc = "fetch"
    /\ i \in DOMAIN task
    /\ task[i].pc = "wait"
    /\ permits' = IF permits > 0 THEN permits - 1 ELSE 0
    /\ task' = [task EXCEPT ![i].pc = "inflight"]
    /\ UNCHANGED <<pc, urls, clock, heap, jobs, normalized_jobs, stored_jobs,
                   responses, results, outcome, rows, events, storeCall,
                   normCall, call>>

\* _scrape_url enters `async with semaphore`
Acquire(i) ==
    /\ pc = "fetch"
    /\ i \in DOMAIN task
    /\ task[i].pc = "wait"
    /\ permits > 0
    /\ permits' = permits - 1
    /\ task' = [task EXCEPT ![i].pc = "inflight"]
    /\ UNCHANGED <<pc, urls, clock, heap, jobs, normalized_jobs, stored_jobs,
                   responses, results, outcome, rows, events, storeCall,
                   normCall>>
    /\ UNCHANGED call

\* a task that keeps its permit when the retrieval fails
CompleteTaskKeepsPermit(i, o) ==
    /\ pc = "fetch"
    /\ i \in DOMAIN task
    /\ task[i].pc = "inflight"
    /\ permits' = IF o.raises \/ o.status # 200 THEN permits ELSE permits + 1
    /\ task' = [task EXCEPT ![i] =
                  [pc |-> "done",
                   result |-> _scrape_url(o, urls[i], clock),
                   failed |-> o.raises \/ o.status # 200]]
    /\ UNCHANGED <<pc, urls, clock, heap, jobs, normalized_jobs, stored_jobs,
                   responses, results, outcome, rows, events, storeCall,
                   normCall>>

\* _scrape_url: the retrieval ends in o, the task returns its list and
\* leaves the `async with`
CompleteTask(i, o) ==
    /\ pc = "fetch"
    /\ i \in DOMAIN task
    /\ task[i].pc = "inflight"
    /\ permits' = permits + 1
    /\ task' = [task EXCEPT ![i] =
                  [pc |-> "done",
                   result |-> _scrape_url(o, urls[i], clock),
                   failed |-> o.raises \/ o.status # 200]]
    /\ UNCHANGED <<pc, urls, clock, heap, jobs, normalized_jobs, stored_jobs,
                   responses, results, outcome, rows, events, storeCall,
                   normCall>>

Complete(i, o) ==
    /\ CompleteTask(i, o)
    /\ UNCHANGED call

\* ScraperAgent.process returns from asyncio.gather; run_pipeline counts
\* the jobs and stops when there is none
Gather ==
    /\ pc = "fetch"
    /\ \A i \in DOMAIN task : task[i].pc = "done"
    /\ \E scraped \in {GatherFrom(task, 1)} :
       LET list == [k \in 1..Len(scraped) |-> k]
           res  == [results EXCEPT !.jobs_scraped = Len(list)]
       IN  /\ heap' = scraped
           /\ jobs' = list
           /\ events' = Append(events, Event("return", "fetch", list))
           /\ IF NoJobs(list)
              THEN /\ results' = WithExecutionTime(res)
                   /\ outcome' = [kind |-> "returned",
                                  value |-> WithExecutionTime(res)]
                   /\ pc' = "returned"
              ELSE /\ results' = res
                   /\ outcome' = outcome
                   /\ pc' = StageAfter("fetch")
    /\ UNCHANGED <<urls, clock, task, permits, normalized_jobs, stored_jobs,
                   responses, rows, storeCall, normCall>>
    /\ UNCHANGED call

\* run_pipeline step 2: normalized_jobs = await self.normalizer.process(jobs)
Normalize ==
    /\ pc = "normalize"
    /\ \E faults \in [1..Len(jobs) -> NormalizeFaults],
          orders \in OrderChoices(heap, jobs, 1) :
         \E r \in {NormalizerAgent_process(heap, jobs, faults, orders)} :
             /\ heap' = r.heap
             /\ normalized_jobs' = r.out
             /\ results' = [results EXCEPT !.jobs_normalized = Len(r.out)]
             /\ events' = events \o <<Event("call", "normalize", jobs),
                                      Event("return", "normalize", r.out)>>
             /\ normCall' = [called |-> TRUE, failed |-> r.failed]
    /\ pc' = StageAfter("normalize")
    /\ UNCHANGED <<urls, clock, task, permits, jobs, stored_jobs, responses,
                   outcome, rows, storeCall>>
    /\ UNCHANGED call

\* run_pipeline step 3: stored_jobs = await self.storage.process(
\* normalized_jobs); a raise of the stage goes to the except branch
Persist ==
    /\ pc = "persist"
    /\ \E faults \in SUBSET (1..Len(normalized_jobs)), commit_fails \in BOOLEAN :
         \E r \in {StorageAgent_process(rows, heap, normalized_jobs, faults,
                                        commit_fails)},
            h \in {OnPipelineError(results, "commit failed")} :
             /\ rows' = r.rows
             /\ heap' = r.heap
             /\ storeCall' = [called |-> TRUE, before |-> rows,
                              input |-> normalized_jobs, out |-> r.out,
                              failed |-> r.failed,
                              commit_failed |-> commit_fails]
             /\ IF r.raised
                THEN /\ results' = h.results
                     /\ outcome' = h.outcome
                     /\ pc' = h.pc
                     /\ stored_jobs' = stored_jobs
                     /\ events' = events \o
                          <<Event("call", "persist", normalized_jobs),
                            Event("raise", "persist", <<>>)>>
                ELSE /\ results' = [results EXCEPT !.jobs_stored = Len(r.out)]
                     /\ outcome' = outcome
                     /\ pc' = StageAfter("persist")
                     /\ stored_jobs' = r.out
                     /\ events' = events \o
                          <<Event("call", "persist", normalized_jobs),
                            Event("return", "persist", r.out)>>
    /\ normCall' = NoNormCall
    /\ UNCHANGED <<urls, clock, task, permits, jobs, normalized_jobs,
                   responses>>
    /\ UNCHANGED call

\* run_pipeline step 4 and the return of the results
Respond ==
    /\ pc = "respond"
    /\ \E r \in {ResponderAgent_process(DefaultResponderConfig, heap,
                                        stored_jobs, clock)} :
         \E res \in {WithExecutionTime(
                       [results EXCEPT
                          !.responses_generated = CountShouldRespond(r.out)]
                       @@ [responses |-> r.out])} :
           /\ heap' = r.heap
           /\ responses' = r.out
           /\ results' = res
           /\ outcome' = [kind |-> "returned", value |-> res]
           /\ events' = events \o
                <<Event("call", "respond", stored_jobs),
                  Event("return", "respond",
                        [k \in 1..Len(r.out) |-> r.out[k].job])>>
    /\ pc' = StageAfter("respond")
    /\ storeCall' = NoStoreCall
    /\ UNCHANGED <<urls, clock, task, permits, jobs, normalized_jobs,
                   stored_jobs, rows, normCall>>
    /\ UNCHANGED call

\* the caller has taken the result or the exception: the locals of the
\* finished run_pipeline call are gone, the store and the time stay
Finish ==
    /\ pc \in {"returned", "raised"}
    /\ pc' = "idle"
    /\ urls' = <<>>
    /\ task' = <<>>
    /\ permits' = max_concurrent_requests
    /\ heap' = <<>>
    /\ jobs' = <<>>
    /\ normalized_jobs' = <<>>
    /\ stored_jobs' = <<>>
    /\ responses' = <<>>
    /\ results' = NewResults(<<>>)
    /\ outcome' = [kind |-> "none"]
    /\ events' = <<>>
    /\ storeCall' = NoStoreCall
    /\ normCall' = NoNormCall
    /\ UNCHANGED <<clock, rows>>
    /\ UNCHANGED call

Next ==
    \/ Finish
    \/ \E us \in UrlLists : StartPipeline(us)
    \/ \E i \in 1..MaxUrls : Acquire(i)
    \/ \E i \in 1..MaxUrls, o \in FetchOutcomes : Complete(i, o)
    \/ Gather
    \/ Normalize
    \/ Persist
    \/ Respond

Spec == Init /\ [][Next]_vars

(* ----------------- the agents' methods called on their own -------------- *)

pipeline_vars ==
    <<pc, urls, clock, task, permits, heap, jobs, normalized_jobs,
      stored_jobs, responses, results, outcome, rows, events, storeCall,
      normCall>>

\* how often one record is handed to _normalize_job again
MaxRepeats == 2

\* a Job as the Job model builds it from the fields given
SampleJob(title, description) ==
    [id |-> None, external_id |-> <<"u1", 0>>, title |-> title,
     company |-> <<"Acme">>, location |-> None, description |-> description,
     salary_min |-> None, salary_max |-> None, salary_currency |-> None,
     job_type |-> None, remote_type |-> None, required_skills |-> <<>>,
     scraped_date |-> 1, status |-> "new"]

\* descriptions for the normalizer: none, skills, salary ranges in the
\* forms the patterns name, captures without a digit, remote-work terms,
\* job-type phrases
SampleDescriptions ==
    {<<>>,
     <<"Python", "sp", "and", "sp", "django">>,
     <<"java", "sp", "sql">>,
     <<"Salary", "sp", "range:", "sp", "$", "8", "0", ",", "0", "0", "0",
       "sp", "-", "sp", "$", "1", "2", "0", ",", "0", "0", "0">>,
     <<"5", "0", "k", "-", "7", "0", "k">>,
     <<"5", "0", "K", "sp", "-", "7", "0">>,
     <<"4", "0", "sp", "€", "sp", "-", "sp", "6", "0", "sp", "€">>,
     <<",", "-", ",", "sp", "3", "0", "€", "-", "5", "0", "€">>,
     <<",", "sp", "-", "sp", ",">>,
     <<"fully", "sp", "remote">>,
     <<"Remote", "sp", "or", "sp", "hybrid">>,
     <<"hybrid", "sp", "office">>,
     <<"work", "sp", "from", "sp", "home">>,
     <<"Contract", "sp", "temps", "sp", "plein">>,
     <<"office", "sp", "sp", "job">>}

SampleTitles == {<<"Dev">>, <<"Remote", "sp", "Dev">>}

NormalizerJobs ==
    {[SampleJob(title, description) EXCEPT
         !.required_skills = skills,
         !.salary_min = salary[1], !.salary_max = salary[2],
         !.job_type = job_type, !.location = location] :
       title \in SampleTitles, description \in SampleDescriptions,
       skills \in {<<>>, <<"Python">>, <<"Rust", "Python", "Rust">>},
       salary \in {<<None, None>>, <<<<10>>, None>>, <<<<10>>, <<20>>>>},
       job_type \in {None, <<<<"Contract">>>>, <<<<"intern">>>>},
       location \in {None, <<<<"Location:", "sp", "Berlin">>>>}}

\* a NormalizerAgent and a record about to be handed to _normalize_job
InitNormalizer ==
    /\ Idle
    /\ call \in {[fn |-> "_normalize_job", input |-> job, job |-> job,
                  times |-> 0] : job \in NormalizerJobs}

\* one call of NormalizerAgent._normalize_job on the record, as it is
\* after the calls before
CallNormalizeJob ==
    /\ call.fn = "_normalize_job"
    /\ call.times < MaxRepeats
    /\ \E order \in SkillOrders(call.job) :
         call' = [call EXCEPT
                    !.job = _normalize_job(call.job, "none", order).job,
                    !.times = @ + 1]
    /\ UNCHANGED pipeline_vars

NextNormalizer == CallNormalizeJob

SpecNormalizer == InitNormalizer /\ [][NextNormalizer]_vars

\* a template with a placeholder no variable has and one of a custom
\* variable
CustomTemplate ==
    [name    |-> "Custom",
     subject |-> <<"{job_title}", "sp", "{salary}", "sp", "{name}">>,
     body    |-> <<"{location}", "sp", "{job_type}", "sp", "{date}", "sp",
                   "{company}", "sp", "{job_title}">>]

\* the criteria a responder can be configured with: each key absent or
\* with one value
SampleCriteria ==
    [required_skills : {None, <<{"Python"}>>},
     job_types       : {None, <<{<<"full-time">>}>>},
     remote_types    : {None, <<{<<"remote">>}>>},
     min_salary      : {None, <<50>>},
     locations       : {None, <<{<<"Berlin">>}>>}]

ResponderConfigs ==
    {[auto_respond |-> a, response_criteria |-> c,
      custom_variables |-> t.custom_variables, templates |-> t.templates] :
       a \in BOOLEAN, c \in SampleCriteria,
       t \in {[custom_variables |-> <<>>, templates |-> <<>>],
              [custom_variables |-> <<[key |-> "name", value |-> <<"Ann">>]>>,
               templates |-> <<CustomTemplate>>]}}

\* stored records for the responder
ResponderJobs ==
    {[SampleJob(title, <<"job">>) EXCEPT
         !.id = <<<<"u1", 0>>, 1>>, !.status = "stored",
         !.required_skills = skills, !.job_type = job_type,
         !.remote_type = remote_type, !.salary_min = salary_min,
         !.location = location] :
       title \in {<<"Dev">>, <<"C:", "\\d">>, <<"{company}", "sp", "Dev">>},
       skills \in {<<>>, <<"Python">>, <<"Java">>},
       job_type \in {None, <<<<"full-time">>>>, <<<<"contract">>>>},
       remote_type \in {<<<<"remote">>>>, <<<<"on-site">>>>},
       salary_min \in {None, <<0>>, <<40>>, <<60>>},
       location \in {None, <<<<>>>>, <<<<"berlin-mitte">>>>, <<<<"Paris">>>>}}

\* a ResponderAgent built with a configuration and a record about to be
\* handed to _process_job
InitResponder ==
    /\ Idle
    /\ call \in {[fn |-> "_process_job", cfg |-> cfg, job |-> job, now |-> 1,
                  done |-> FALSE, ret |-> None] :
                   cfg \in ResponderConfigs, job \in ResponderJobs}

\* one call of ResponderAgent._process_job
CallProcessJob ==
    /\ call.fn = "_process_job"
    /\ ~call.done
    /\ call' = [call EXCEPT
                  !.done = TRUE,
                  !.ret = _process_job(call.cfg, call.job, 1, call.now)]
    /\ UNCHANGED pipeline_vars

NextResponder == CallProcessJob

SpecResponder == InitResponder /\ [][NextResponder]_vars

(* ----------------- ScraperAgent.process on its own --------------------- *)

\* how many locations one ScraperAgent.process call is given
MaxScraperUrls == 3

\* pages of one job, of two jobs, and of a job after an element that gives
\* none
ScraperPages == {<<ElemA>>, <<ElemA, ElemB>>, <<NoTitle, ElemA>>}

ScraperOutcomes ==
    {[raises |-> FALSE, status |-> 200, page |-> p] : p \in ScraperPages}
    \cup {[raises |-> FALSE, status |-> 500, page |-> <<ElemA>>],
          [raises |-> TRUE, status |-> 0, page |-> <<>>]}

\* a ScraperAgent.process call that has made its tasks; call.completed
\* records the order in which the tasks finish
InitScraper ==
    /\ pc = "fetch"
    /\ urls \in SeqsUpTo(Locations, MaxScraperUrls)
    /\ clock = 1
    /\ task = [i \in 1..Len(urls) |->
                 [pc |-> "wait", result |-> <<>>, failed |-> FALSE]]
    /\ permits = max_concurrent_requests
    /\ heap = <<>>
    /\ jobs = <<>>
    /\ normalized_jobs = <<>>
    /\ stored_jobs = <<>>
    /\ responses = <<>>
    /\ results = NewResults(urls)
    /\ outcome = [kind |-> "none"]
    /\ rows = {}
    /\ events = <<Event("call", "fetch", <<>>)>>
    /\ storeCall = NoStoreCall
    /\ normCall = NoNormCall
    /\ call = [fn |-> "process", completed |-> <<>>]

\* a task enters `async with semaphore`
ScraperAcquire(i) == Acquire(i)

\* a task's retrieval ends and the task returns
ScraperComplete(i, o) ==
    /\ CompleteTask(i, o)
    /\ call' = [call EXCEPT !.completed = Append(@, i)]

\* asyncio.gather returns and process returns the list
ScraperGather == Gather

NextScraper ==
    \/ \E i \in 1..MaxScraperUrls : ScraperAcquire(i)
    \/ \E i \in 1..MaxScraperUrls, o \in ScraperOutcomes : ScraperComplete(i, o)
    \/ ScraperGather

SpecScraper == InitScraper /\ [][NextScraper]_vars

\* the event loop runs every task that can go on, and every retrieval ends
\* (the session's timeout at the latest)
FairSpecScraper ==
    /\ SpecScraper
    /\ WF_vars(\E i \in 1..MaxScraperUrls : ScraperAcquire(i))
    /\ WF_vars(\E i \in 1..MaxScraperUrls, o \in ScraperOutcomes :
                 ScraperComplete(i, o))
    /\ WF_vars(ScraperGather)

(* ------------------------------ claims --------------------------------- *)

StageOrder == <<"fetch", "normalize", "persist", "respond">>

\* the record at position k of a list of heap indices
At(list, k) == heap[list[k]]

\* C1: NormalizerAgent.process returns the records it was given, all of
\* them and in their order; a record whose normalization raised sits at its
\* position with status error, every other record, also one that follows a
\* failed one, is normalized.
C1_NormalizeKeepsEveryRecord ==
    pc = "persist" =>
        /\ normCall.called
        /\ Len(normalized_jobs) = Len(jobs)
        /\ \A k \in 1..Len(jobs) :
             /\ normalized_jobs[k] = jobs[k]
             /\ At(jobs, k).status =
                    IF k \in normCall.failed THEN "error" ELSE "normalized"
             /\ k \notin normCall.failed =>
                    At(jobs, k).description =
                        _normalize_text(At(jobs, k).description)

C1_Witness ==
    /\ pc = "persist"
    /\ Len(jobs) = 2
    /\ normCall.failed = {1}
    /\ At(normalized_jobs, 1).status = "error"
    /\ At(normalized_jobs, 2).status = "normalized"

\* C2: in one run the stages are called in the order fetch, normalize,
\* persist, respond; a stage is called only after the stage before it has
\* returned, with the list that stage returned, and no stage after fetch
\* is called while a fetch task is still running.
C2_StagesInOrder ==
    /\ \A k \in 1..Len(events) :
         /\ events[k].stage = StageOrder[(k + 1) \div 2]
         /\ (k % 2 = 1) => events[k].ev = "call"
         /\ (k % 2 = 0) => events[k].ev \in {"return", "raise"}
         /\ (k % 2 = 1 /\ k > 1) =>
               /\ events[k - 1].ev = "return"
               /\ events[k].list = events[k - 1].list
    /\ Len(events) >= 2 =>
         /\ \A i \in DOMAIN task : task[i].pc = "done"
         /\ events[2].list = jobs
         /\ Len(jobs) = Len(GatherFrom(task, 1))

C2_Witness ==
    /\ pc = "returned"
    /\ Len(events) = 8
    /\ Len(events[8].list) = 2

\* C3: when the fetch stage returns no job, run_pipeline returns its result
\* without calling another stage: urls_processed is the number of
\* locations, the four job counts are zero and the execution time is set.
C3_NoJobsStopsThePipeline ==
    (Len(events) >= 2 /\ events[2].list = <<>>) =>
        /\ pc = "returned"
        /\ Len(events) = 2
        /\ ~normCall.called /\ ~storeCall.called /\ responses = <<>>
        /\ outcome.kind = "returned"
        /\ outcome.value.urls_processed = Len(urls)
        /\ outcome.value.jobs_scraped = 0
        /\ outcome.value.jobs_normalized = 0
        /\ outcome.value.jobs_stored = 0
        /\ outcome.value.responses_generated = 0
        /\ outcome.value.errors = <<>>
        /\ "execution_time_seconds" \in DOMAIN outcome.value

C3_Witness ==
    /\ pc = "returned"
    /\ Len(urls) = 2
    /\ jobs = <<>>
    /\ outcome.kind = "returned"
    /\ outcome.value.urls_processed = 2

\* the external_ids the rows of a table hold
ExternalIds(table) == {r.external_id : r \in table}

\* the last position of the persist call's input at which a record with
\* the external_id of position k was written
LastWrite(k) ==
    \A m \in (k + 1)..Len(storeCall.input) :
        m \in storeCall.failed
        \/ At(storeCall.input, m).external_id
               # At(storeCall.input, k).external_id

C5_PersistFailureAbortsTheRun ==
    (storeCall.called /\ storeCall.commit_failed) =>
        /\ pc = "raised"
        /\ outcome.kind = "raised"
        /\ results.errors = <<outcome.message>>
        /\ responses = <<>>
        /\ \A k \in 1..Len(events) : events[k].stage # "respond"

C5_Witness ==
    /\ pc = "raised"
    /\ storeCall.commit_failed
    /\ events[Len(events)] = [ev |-> "raise", stage |-> "persist", list |-> <<>>]
    /\ results.jobs_normalized = 2
    /\ results.errors # <<>>

\* C6: every run_pipeline call, a failing one included, yields a result to
\* its caller that reports the counts of the stages reached and whose
\* errors list holds the message of every stage failure of the run.
C6_ResultAlwaysYielded ==
    pc \in {"returned", "raised"} =>
        /\ outcome.kind = "returned"
        /\ outcome.value.jobs_scraped = Len(jobs)
        /\ outcome.value.jobs_normalized = Len(normalized_jobs)
        /\ outcome.value.jobs_stored = Len(stored_jobs)
        /\ storeCall.commit_failed => outcome.value.errors # <<>>

\* C7: a persist call that returns gives back the records it was given,
\* all of them and in their order; each has its id set and status stored,
\* or status error when its write failed.
C7_StoreReturnsEveryRecord ==
    (storeCall.called /\ ~storeCall.commit_failed) =>
        /\ stored_jobs = storeCall.input
        /\ storeCall.out = storeCall.input
        /\ pc = "respond" =>
             \A k \in 1..Len(stored_jobs) :
                \/ /\ k \notin storeCall.failed
                   /\ At(stored_jobs, k).id # None
                   /\ At(stored_jobs, k).status = "stored"
                \/ /\ k \in storeCall.failed
                   /\ At(stored_jobs, k).status = "error"

C7_Witness ==
    /\ pc = "respond"
    /\ Len(stored_jobs) = 2
    /\ storeCall.failed = {1}
    /\ At(stored_jobs, 1).status = "error"
    /\ At(stored_jobs, 2).status = "stored"
    /\ At(stored_jobs, 2).id # None

\* C8: the store never holds two rows with one external_id; a persist call
\* adds a row only for an external_id the store did not hold, and after the
\* call the row of an external_id has the fields of the last record written
\* for it.
C8_OneRowPerExternalId ==
    /\ \A r1 \in rows : \A r2 \in rows :
          r1.external_id = r2.external_id => r1 = r2
    /\ (storeCall.called /\ ~storeCall.commit_failed) =>
          /\ Cardinality(rows) = Cardinality(ExternalIds(storeCall.before)
                \cup {At(storeCall.input, k).external_id :
                        k \in (1..Len(storeCall.input)) \ storeCall.failed})
          /\ \A k \in (1..Len(storeCall.input)) \ storeCall.failed :
                LastWrite(k) =>
                   \E r \in rows :
                      /\ r.external_id = At(storeCall.input, k).external_id
                      /\ r.description = At(storeCall.input, k).description
                      /\ r.title = At(storeCall.input, k).title
                      /\ r.scraped_date = At(storeCall.input, k).scraped_date

C8_Witness ==
    /\ storeCall.called
    /\ ~storeCall.commit_failed
    /\ \E k \in (1..Len(storeCall.input)) \ storeCall.failed :
         /\ \E b \in storeCall.before :
               /\ b.external_id = At(storeCall.input, k).external_id
               /\ b.description # At(storeCall.input, k).description
         /\ \E r \in rows :
               /\ r.external_id = At(storeCall.input, k).external_id
               /\ r.description = At(storeCall.input, k).description
    /\ Cardinality(rows) = Cardinality(storeCall.before)

\* C9: the id of a record returned with status stored is the id of the row
\* that holds its external_id, also when the external_id was stored before
\* with another scraped_date.
C9_ReturnedIdIsRowId ==
    (storeCall.called /\ ~storeCall.commit_failed /\ pc = "respond") =>
        \A k \in 1..Len(stored_jobs) :
            At(stored_jobs, k).status = "stored" =>
                \E r \in rows :
                    /\ r.external_id = At(stored_jobs, k).external_id
                    /\ r.id = At(stored_jobs, k).id

\* C10: ResponderAgent.process returns one result per record, in the order
\* of its input; a record whose processing raised has a result with no
\* response and the error message, and the records after it are processed.
C10_RespondIsolatesFailures ==
    (pc = "returned" /\ Len(events) = 8) =>
        /\ Len(responses) = Len(stored_jobs)
        /\ \A k \in 1..Len(stored_jobs) :
             /\ responses[k].job = stored_jobs[k]
             /\ IF BadEscape(At(stored_jobs, k).title)
                THEN /\ responses[k].response = None
                     /\ "error" \in DOMAIN responses[k]
                     /\ At(stored_jobs, k).status # "responded"
                ELSE /\ "error" \notin DOMAIN responses[k]
                     /\ ShouldRespond(responses[k])
                     /\ responses[k].response # None
                     /\ At(stored_jobs, k).status = "responded"

C10_Witness ==
    /\ pc = "returned"
    /\ Len(responses) = 2
    /\ "error" \in DOMAIN responses[1]
    /\ responses[1].response = None
    /\ ShouldRespond(responses[2])

\* the criteria configure the key and no other
OnlyKey(criteria, key) ==
    /\ criteria[key] # None
    /\ \A other \in CriteriaKeys \ {key} : criteria[other] = None

\* the _process_job call went past the eligibility filter
Eligible == call.ret.raised \/ call.ret.result.should_respond

\* C11: the eligibility filter is the conjunction of the configured
\* predicates and skips the predicate of every key that is absent: with
\* only required_skills configured a record is eligible exactly when its
\* skills meet the configured ones, with only job_types exactly when its
\* job_type is one of them, with only remote_types exactly when its
\* remote_type is one of them, with no key every record is eligible, and a
\* record that fails one configured predicate gets should_respond = false
\* and no response.
C11_FilterIsConjunction ==
    (call.fn = "_process_job" /\ call.done) =>
        LET criteria == call.cfg.response_criteria
            job      == call.job
            skills_ok == criteria.required_skills[1]
                            \cap {job.required_skills[k] :
                                    k \in 1..Len(job.required_skills)} # {}
            type_ok   == job.job_type # None
                         /\ job.job_type[1] \in criteria.job_types[1]
            remote_ok == job.remote_type # None
                         /\ job.remote_type[1] \in criteria.remote_types[1]
        IN  /\ OnlyKey(criteria, "required_skills") => (Eligible <=> skills_ok)
            /\ OnlyKey(criteria, "job_types") => (Eligible <=> type_ok)
            /\ OnlyKey(criteria, "remote_types") => (Eligible <=> remote_ok)
            /\ (\A key \in CriteriaKeys : criteria[key] = None) => Eligible
            /\ (\/ criteria.required_skills # None /\ ~skills_ok
                \/ criteria.job_types # None /\ ~type_ok
                \/ criteria.remote_types # None /\ ~remote_ok
                \/ /\ criteria.min_salary # None
                   /\ job.salary_min \notin {None, <<0>>}
                   /\ job.salary_min[1] < criteria.min_salary[1]
                \/ /\ criteria.locations = <<{<<"Berlin">>}>>
                   /\ job.location = <<<<"Paris">>>>)
               => /\ ~call.ret.raised
                  /\ call.ret.result.should_respond = FALSE
                  /\ call.ret.result.response = None
                  /\ call.ret.job.status = call.job.status

C11_Witness ==
    /\ call.fn = "_process_job" /\ call.done
    /\ OnlyKey(call.cfg.response_criteria, "required_skills")
    /\ call.job.required_skills = <<"Java">>
    /\ call.job.title = <<"Dev">>
    /\ ~call.ret.raised
    /\ call.ret.result.should_respond = FALSE

\* C12: when min_salary is configured a record is eligible only if its
\* salary_min is at least the configured minimum, and when locations is
\* configured only if its location contains, whatever the case, one of the
\* configured locations; for every record, also one whose salary_min or
\* location is absent, zero or empty.
C12_SalaryAndLocationRequired ==
    (call.fn = "_process_job" /\ call.done /\ Eligible) =>
        LET criteria == call.cfg.response_criteria
            job      == call.job
        IN  /\ criteria.min_salary # None =>
                  /\ job.salary_min # None
                  /\ job.salary_min[1] >= criteria.min_salary[1]
            /\ criteria.locations # None =>
                  /\ job.location # None
                  /\ \E loc \in criteria.locations[1] :
                        Contains(LowerText(job.location[1]), LowerText(loc))

\* C13: for every record a response is produced for: under auto_respond
\* the response has status sent and a sent_date and the result has
\* auto_sent = true, otherwise the response is pending without sent_date
\* and auto_sent is false.
C13_AutoSendMarksResponse ==
    (call.fn = "_process_job" /\ call.done /\ ~call.ret.raised
     /\ call.ret.result.response # None) =>
        LET response == call.ret.result.response[1]
        IN  IF call.cfg.auto_respond
            THEN /\ response.status = "sent"
                 /\ response.sent_date # None
                 /\ call.ret.result.auto_sent = TRUE
            ELSE /\ response.status = "pending"
                 /\ response.sent_date = None
                 /\ call.ret.result.auto_sent = FALSE

C13_Witness ==
    /\ call.fn = "_process_job" /\ call.done /\ ~call.ret.raised
    /\ call.cfg.auto_respond
    /\ call.ret.result.response # None
    /\ call.ret.result.response[1].status = "sent"
    /\ call.ret.result.response[1].sent_date = <<call.now>>
    /\ call.ret.result.auto_sent

\* the external_ids of the jobs the tasks from i on returned, tasks whose
\* retrieval failed left out
RECURSIVE ExternalIdsOfOthers(_, _)
ExternalIdsOfOthers(t, i) ==
    IF i > Len(t) THEN <<>>
    ELSE (IF t[i].failed THEN <<>>
          ELSE [k \in 1..Len(t[i].result) |-> t[i].result[k].external_id])
         \o ExternalIdsOfOthers(t, i + 1)

\* C14: ScraperAgent.process does not raise for the failure of a location:
\* a location whose retrieval gives a status other than 200, raises or
\* times out contributes nothing, the fetch stage returns, and the list it
\* returns holds the jobs of all the other locations.
C14_LocationFailureIsIsolated ==
    /\ \A i \in DOMAIN task : task[i].failed => task[i].result = <<>>
    /\ \A k \in 1..Len(events) :
          ~(events[k].stage = "fetch" /\ events[k].ev = "raise")
    /\ (pc = "fetch" /\ \A i \in DOMAIN task : task[i].pc = "done")
          => ENABLED Gather
    /\ (Len(events) = 2 \/ pc = "normalize") =>
          /\ events[2] = Event("return", "fetch", jobs)
          /\ [k \in 1..Len(jobs) |-> At(jobs, k).external_id]
                = ExternalIdsOfOthers(task, 1)

C14_Witness ==
    /\ pc = "normalize"
    /\ Len(task) = 2
    /\ task[1].failed /\ ~task[2].failed
    /\ Len(jobs) = 1
    /\ At(jobs, 1).external_id = <<urls[2], 0>>

\* the tasks that are inside `async with semaphore`
InFlight == {i \in DOMAIN task : task[i].pc = "inflight"}

\* C15: during one ScraperAgent.process call, whatever the interleaving of
\* the tasks, the number of locations whose retrieval is in flight is at
\* most max_concurrent_requests.
C15_InFlightBounded ==
    /\ Cardinality(InFlight) <= max_concurrent_requests
    /\ pc = "fetch" => permits + Cardinality(InFlight) = max_concurrent_requests

C15_Witness ==
    /\ pc = "fetch"
    /\ Cardinality(InFlight) = max_concurrent_requests
    /\ permits = 0
    /\ \E i \in DOMAIN task : task[i].pc = "wait"

\* the place of a status on the way new, normalized, stored, responded
Rank(status) ==
    CASE status = "new"        -> 1
      [] status = "normalized" -> 2
      [] status = "stored"     -> 3
      [] status = "responded"  -> 4
      [] OTHER                 -> 0

\* C16: in every run_pipeline execution no step of a stage replaces the
\* status of a record by one that comes earlier on the way new, normalized,
\* stored, responded; a status is one of these four or error.
C16_StatusMovesForward ==
    [][\A oid \in DOMAIN heap \cap DOMAIN heap' :
          /\ heap'[oid].status \in
                {"new", "normalized", "stored", "responded", "error"}
          /\ (Rank(heap[oid].status) > 0 /\ Rank(heap'[oid].status) > 0)
                => Rank(heap'[oid].status) >= Rank(heap[oid].status)]_vars

C16_Witness ==
    /\ pc = "returned"
    /\ Len(events) = 8
    /\ \E oid \in DOMAIN heap : heap[oid].status = "responded"
    /\ \E oid \in DOMAIN heap : heap[oid].status = "error"

\* C17: after a record is normalized, once or again and again, its
\* required_skills holds no skill twice and is the union of the skills it
\* came with and the skills matched in its description; for every record,
\* also one with an empty description or with a skill twice on input.
C17_SkillsAreSetUnion ==
    (call.fn = "_normalize_job" /\ call.times >= 1) =>
        LET out == call.job.required_skills
        IN  /\ Cardinality(ToSet(out)) = Len(out)
            /\ ToSet(out) =
                  ToSet(call.input.required_skills)
                  \cup ToSet(_extract_skills(
                                 _normalize_text(call.input.description)))

\* what the salary rules give for the sample descriptions: minimum,
\* maximum and currency, or nothing
ExpectedSalary(description) ==
    CASE description = <<"Salary", "sp", "range:", "sp", "$", "8", "0", ",",
                         "0", "0", "0", "sp", "-", "sp", "$", "1", "2", "0",
                         ",", "0", "0", "0">>
             -> <<<<80000>>, <<120000>>, <<"USD">>>>
      [] description = <<"5", "0", "k", "-", "7", "0", "k">>
             -> <<<<50000>>, <<70000>>, <<"USD">>>>
      [] description = <<"5", "0", "K", "sp", "-", "7", "0">>
             -> <<<<50000>>, <<70000>>, <<"USD">>>>
      [] description = <<"4", "0", "sp", "€", "sp", "-", "sp", "6", "0",
                         "sp", "€">>
             -> <<<<40>>, <<60>>, <<"EUR">>>>
      [] description = <<",", "-", ",", "sp", "3", "0", "€", "-", "5", "0",
                         "€">>
             -> <<<<30>>, <<50>>, <<"EUR">>>>
      [] OTHER -> <<None, None, None>>

\* C18: the salary taken from a description is that of the first range
\* pattern that matches, the thousands separators stripped; both values
\* are multiplied by 1000 when the letter k is part of the match; the
\* currency is EUR when the match holds the euro sign and USD otherwise; a
\* match whose captures hold no number sets nothing and the next pattern is
\* tried.
C18_SalaryExtraction ==
    (call.fn = "_normalize_job" /\ call.times = 1
     /\ call.input.salary_min = None) =>
        /\ <<call.job.salary_min, call.job.salary_max,
             call.job.salary_currency>>
              = ExpectedSalary(call.input.description)
        /\ _extract_salary(call.input.description) # None =>
              _extract_salary(call.input.description)[1].currency
                  = IF \E k \in 1..Len(call.input.description) :
                          call.input.description[k] = "€"
                    THEN "EUR" ELSE "USD"

C18_Witness ==
    /\ call.fn = "_normalize_job" /\ call.times = 1
    /\ call.input.salary_min = None
    /\ call.input.description = <<"5", "0", "k", "-", "7", "0", "k">>
    /\ call.job.salary_min = <<50000>>
    /\ call.job.salary_max = <<70000>>
    /\ call.job.salary_currency = <<"USD">>

\* C19: the remote type of a normalized record is one of remote, hybrid
\* and on-site: remote when its lower-cased title and description hold a
\* remote term and no hybrid term, hybrid when they hold both, on-site in
\* every other case, also when they hold a hybrid term and no remote term.
C19_RemoteTypeClassification ==
    (call.fn = "_normalize_job" /\ call.times >= 1) =>
        LET text   == LowerText(call.input.title \o <<"sp">>
                                \o call.input.description)
            remote == \E term \in RemoteTerms : Contains(text, term)
            hybrid == \E term \in HybridTerms : Contains(text, term)
        IN  /\ call.job.remote_type
                  \in {<<<<"remote">>>>, <<<<"hybrid">>>>, <<<<"on-site">>>>}
            /\ (remote /\ ~hybrid) => call.job.remote_type = <<<<"remote">>>>
            /\ (remote /\ hybrid) => call.job.remote_type = <<<<"hybrid">>>>
            /\ ~remote => call.job.remote_type = <<<<"on-site">>>>

C19_Witness ==
    /\ call.fn = "_normalize_job" /\ call.times = 1
    /\ call.input.title = <<"Dev">>
    /\ call.input.description = <<"hybrid", "sp", "office">>
    /\ call.job.remote_type = <<<<"on-site">>>>

\* the tokens of a text
Tokens(text) == {text[k] : k \in 1..Len(text)}

\* the placeholders of the five fixed variables and of the custom
\* variables of a configuration
KnownPlaceholders(cfg) ==
    {Placeholder(key) :
        key \in {"job_title", "company", "location", "job_type", "date"}
                \cup {cfg.custom_variables[k].key :
                        k \in 1..Len(cfg.custom_variables)}}

\* C20: rendering a template puts the value of the variable in the place
\* of every placeholder of a fixed or custom variable, in subject and
\* body, leaves every other placeholder as it is, and raises no error
\* whatever the values of the job's fields.
C20_RenderingNeverFails ==
    (call.fn = "_process_job" /\ call.done /\ Eligible) =>
        LET template == _select_template(call.cfg)[1]
            response == call.ret.result.response[1]
        IN  /\ ~call.ret.raised
            /\ Tokens(response.subject) \cap KnownPlaceholders(call.cfg) = {}
            /\ Tokens(response.body) \cap KnownPlaceholders(call.cfg) = {}
            /\ "{salary}" \in Tokens(template.subject)
                  => "{salary}" \in Tokens(response.subject)

\* C21: a record that enters normalization with salary_min or salary_max
\* already set leaves it with salary_min, salary_max and salary_currency
\* unchanged; the description gives the salary only when both are absent.
C21_SalaryKeptWhenOneSet ==
    (/\ call.fn = "_normalize_job" /\ call.times >= 1
     /\ (call.input.salary_min # None \/ call.input.salary_max # None)) =>
        /\ call.job.salary_min = call.input.salary_min
        /\ call.job.salary_max = call.input.salary_max
        /\ call.job.salary_currency = call.input.salary_currency

\* the canonical type of the first entry of the mapping one of whose
\* trigger phrases a text contains, or None
TypeNamedIn(text) ==
    LET hits == {i \in 1..Len(job_type_mappings) :
                   \E j \in 1..Len(job_type_mappings[i].patterns) :
                       Contains(LowerText(text),
                                job_type_mappings[i].patterns[j])}
    IN  IF hits = {} THEN None
        ELSE <<job_type_mappings[CHOOSE i \in hits :
                                   \A k \in hits : i <= k].normalized>>

\* C22: the job_type field is scanned before the description: when the
\* field contains a trigger phrase of a canonical type the result is that
\* type whatever the description holds, the description decides only when
\* the field matches nothing, and the result is full-time when neither
\* matches.
C22_JobTypeFieldFirst ==
    (call.fn = "_normalize_job" /\ call.times = 1) =>
        LET field == IF call.input.job_type = None THEN <<>>
                     ELSE call.input.job_type[1]
            description == _normalize_text(call.input.description)
        IN  call.job.job_type =
              <<IF TypeNamedIn(field) # None THEN TypeNamedIn(field)
                ELSE IF TypeNamedIn(description) # None
                THEN TypeNamedIn(description)
                ELSE <<"full-time">>>>

\* the number of jobs the tasks before the i-th returned
RECURSIVE JobsBefore(_, _)
JobsBefore(t, i) ==
    IF i <= 1 THEN 0 ELSE JobsBefore(t, i - 1) + Len(t[i - 1].result)

\* C23: whatever order the retrievals complete in, the list that
\* ScraperAgent.process returns is the concatenation of the job lists of
\* the locations in the order of the input, each location's jobs in
\* ascending page ordinal.
C23_GatherKeepsTaskOrder ==
    (call.fn = "process" /\ pc # "fetch") =>
        /\ Len(jobs) = JobsBefore(task, Len(task) + 1)
        /\ \A i \in DOMAIN task :
              \A n \in 1..Len(task[i].result) :
                  /\ At(jobs, JobsBefore(task, i) + n) = task[i].result[n]
                  /\ task[i].result[n].external_id[1] = urls[i]
                  /\ \A m \in 1..Len(task[i].result) :
                        n < m => task[i].result[n].external_id[2]
                                    < task[i].result[m].external_id[2]

C23_Witness ==
    /\ call.fn = "process" /\ pc = "normalize"
    /\ Len(task) = 2 /\ urls[1] # urls[2]
    /\ call.completed = <<2, 1>>
    /\ Len(task[1].result) = 2 /\ Len(task[2].result) = 1
    /\ [k \in 1..Len(jobs) |-> At(jobs, k).external_id]
          = <<<<urls[1], 0>>, <<urls[1], 1>>, <<urls[2], 0>>>>

\* C24: the status written to a row is the one the record had when it
\* entered the persist stage, and stored is set on the returned record
\* only; so no row of the store has status stored or responded after a
\* run, and get_jobs(status = stored) returns none of the records the run
\* persisted.
C24_RowKeepsEntryStatus ==
    [][/\ (pc = "persist" /\ storeCall'.called /\ ~storeCall'.commit_failed) =>
            \A k \in 1..Len(normalized_jobs) :
                k \notin storeCall'.failed =>
                    /\ heap'[normalized_jobs[k]].status = "stored"
                    /\ (\A m \in (k + 1)..Len(normalized_jobs) :
                            m \in storeCall'.failed
                            \/ At(normalized_jobs, m).external_id
                                   # At(normalized_jobs, k).external_id)
                          => \E r \in rows' :
                                /\ r.external_id
                                      = At(normalized_jobs, k).external_id
                                /\ r.status = At(normalized_jobs, k).status
       /\ \A r \in rows' : r.status \notin {"stored", "responded"}
       /\ get_jobs(rows', <<"stored">>) = {}]_vars

C24_Witness ==
    /\ pc = "returned"
    /\ \E k \in 1..Len(stored_jobs) :
          /\ At(stored_jobs, k).status = "responded"
          /\ \E r \in rows :
                /\ r.external_id = At(stored_jobs, k).external_id
                /\ r.scraped_date = clock
                /\ r.status = "normalized"
                /\ r \in get_jobs(rows, <<"normalized">>)

\* C25: error is not absorbing: a record that normalization marked error
\* is still handed to the persist stage, is written to the store and
\* leaves persist with status stored, and respond may make it responded;
\* the status of a stored record in the final result is never the error
\* of the normalize stage.
C25_ErrorIsNotAbsorbing ==
    [][/\ (pc = "persist" /\ normCall.called /\ ~storeCall'.commit_failed) =>
            \A k \in normCall.failed :
                /\ At(normalized_jobs, k).status = "error"
                /\ stored_jobs'[k] = normalized_jobs[k]
                /\ k \notin storeCall'.failed =>
                      /\ heap'[normalized_jobs[k]].status = "stored"
                      /\ At(normalized_jobs, k).external_id
                            \in ExternalIds(rows')
       /\ pc = "respond" =>
            \A k \in 1..Len(stored_jobs) :
                k \notin storeCall.failed =>
                    heap'[stored_jobs[k]].status \in {"stored", "responded"}
      ]_vars

C25_Witness ==
    /\ pc = "returned"
    /\ \E k \in 1..Len(stored_jobs) :
          /\ At(stored_jobs, k).status = "responded"
          /\ \E r \in rows :
                /\ r.external_id = At(stored_jobs, k).external_id
                /\ r.scraped_date = clock
                /\ r.status = "error"

\* the results ResponderAgent.process returns for the record of the call
\* alone
ResultsOfCall ==
    ResponderAgent_process(call.cfg, <<call.job>>, <<1>>, call.now).out

\* C26: in a result the respond stage produces without an exception,
\* should_respond is true exactly when the response is not null, and
\* exactly then the record's status becomes responded; a record that fails
\* the filter keeps the status it came with; so responses_generated is the
\* number of results that carry a response.
C26_ShouldRespondIffResponse ==
    (call.fn = "_process_job" /\ call.done) =>
        /\ ~call.ret.raised =>
              /\ call.ret.result.should_respond
                    <=> call.ret.result.response # None
              /\ call.ret.result.should_respond
                    <=> call.ret.job.status = "responded"
              /\ ~_meets_criteria(call.cfg.response_criteria, call.job)
                    => call.ret.job = call.job
        /\ CountShouldRespond(ResultsOfCall)
              = Cardinality({k \in 1..Len(ResultsOfCall) :
                               ResultsOfCall[k].response # None})

C26_Witness ==
    /\ call.fn = "_process_job" /\ call.done /\ ~call.ret.raised
    /\ ~call.ret.result.should_respond
    /\ call.ret.result.response = None
    /\ call.ret.job.status = "stored"
    /\ CountShouldRespond(ResultsOfCall) = 0

\* C27: in every run_pipeline call that returns a result after the fetch
\* stage gave at least one job, jobs_scraped = jobs_normalized =
\* jobs_stored, responses_generated is at most jobs_stored, and responses
\* has one entry per stored job: a record a stage marked error is counted
\* like the others.
C27_CountsAgree ==
    (pc = "returned" /\ outcome.kind = "returned"
     /\ outcome.value.jobs_scraped >= 1) =>
        /\ outcome.value.jobs_normalized = outcome.value.jobs_scraped
        /\ outcome.value.jobs_stored = outcome.value.jobs_scraped
        /\ outcome.value.responses_generated <= outcome.value.jobs_stored
        /\ Len(outcome.value.responses) = outcome.value.jobs_stored

C27_Witness ==
    /\ pc = "returned" /\ outcome.kind = "returned"
    /\ outcome.value.jobs_scraped = 2
    /\ outcome.value.jobs_stored = 2
    /\ outcome.value.responses_generated = 1
    /\ Len(outcome.value.responses) = 2
    /\ \E oid \in DOMAIN heap : heap[oid].status = "error"

\* C28: when one persist call gets two records with the same external_id,
\* the second is an update of the row the first one wrote in the same
\* transaction: the store ends with exactly one row for that external_id,
\* holding the fields of the later record, and both records are returned
\* with status stored.
C28_SecondWriteIsUpdate ==
    (pc = "respond" /\ storeCall.called /\ ~storeCall.commit_failed) =>
        \A k, m \in 1..Len(storeCall.input) :
            (/\ k < m
             /\ k \notin storeCall.failed /\ m \notin storeCall.failed
             /\ At(storeCall.input, k).external_id
                   = At(storeCall.input, m).external_id
             /\ LastWrite(m)) =>
                /\ Cardinality({r \in rows :
                      r.external_id = At(storeCall.input, m).external_id}) = 1
                /\ \A r \in rows :
                      r.external_id = At(storeCall.input, m).external_id =>
                          /\ r.title = At(storeCall.input, m).title
                          /\ r.description = At(storeCall.input, m).description
                          /\ r.scraped_date = At(storeCall.input, m).scraped_date
                /\ At(stored_jobs, k).status = "stored"
                /\ At(stored_jobs, m).status = "stored"
                /\ stored_jobs[k] # stored_jobs[m]

C28_Witness ==
    /\ pc = "respond" /\ storeCall.called /\ ~storeCall.commit_failed
    /\ Len(storeCall.input) = 2 /\ storeCall.failed = {}
    /\ urls[1] = urls[2]
    /\ At(storeCall.input, 1).external_id = At(storeCall.input, 2).external_id
    /\ At(storeCall.input, 1).title # At(storeCall.input, 2).title
    /\ At(storeCall.input, 1).external_id \notin ExternalIds(storeCall.before)
    /\ \E r \in rows : r.title = At(storeCall.input, 2).title
    /\ Cardinality(rows) = 1

\* C29: ScraperAgent.process returns for every finite list of locations
\* when max_concurrent_requests is at least 1 and every retrieval ends:
\* every task gets a permit, every permit taken is given back, also by a
\* retrieval that fails, and no location waits forever.
C29_ProcessReturns ==
    <>(/\ pc # "fetch"
       /\ \A i \in DOMAIN task : task[i].pc = "done"
       /\ permits = max_concurrent_requests)

C29_Witness ==
    /\ call.fn = "process" /\ pc # "fetch"
    /\ Len(task) > max_concurrent_requests
    /\ task[1].failed
    /\ Len(call.completed) = Len(task)
    /\ permits = max_concurrent_requests

\* a template text with every placeholder of a variable replaced by the
\* variable's value in one pass: what is put in is not looked at again
RECURSIVE SinglePassFrom(_, _, _)
SinglePassFrom(text, variables, i) ==
    IF i > Len(text) THEN <<>>
    ELSE (IF \E k \in 1..Len(variables) :
                Placeholder(variables[k].key) = text[i]
          THEN variables[CHOOSE k \in 1..Len(variables) :
                           Placeholder(variables[k].key) = text[i]].value
          ELSE <<text[i]>>)
         \o SinglePassFrom(text, variables, i + 1)

\* C30: rendering is single-pass with respect to the text it puts in:
\* placeholder text inside the value of a variable, as in a job title
\* that holds "{company}", is in the rendered subject and body as it is
\* and is not replaced by the value of another variable.
C30_RenderingIsSinglePass ==
    (call.fn = "_process_job" /\ call.done /\ ~call.ret.raised
     /\ call.ret.result.should_respond) =>
        LET template  == _select_template(call.cfg)[1]
            variables == Variables(call.cfg, call.job, call.now)
            response  == call.ret.result.response[1]
        IN  /\ response.subject = SinglePassFrom(template.subject, variables, 1)
            /\ response.body = SinglePassFrom(template.body, variables, 1)

====
